---- MODULE Spec2Model ----
(***************************************************************************)
(* OpenShotX application shell (src/main.py).                              *)
(*                                                                         *)
(* main() runs four statements in order:                                   *)
(*     app = QApplication(sys.argv)                                        *)
(*     window = MainWindow()                                               *)
(*     window.show()                                                       *)
(*     sys.exit(app.exec_())                                               *)
(* There is no try/except anywhere, so an exception raised by any call     *)
(* leaves main() and ends the interpreter.                                 *)
(*                                                                         *)
(* The state of one process run is the record `proc`.  The GUI runtime and *)
(* the operating system are the environment: whether a display session is  *)
(* there, whether an allocation succeeds, which events the window system   *)
(* delivers, and with which code a quit request stops the event loop.      *)
(***************************************************************************)
EXTENDS Integers, Sequences, FiniteSets, TLC

VARIABLES proc, twin, display

vars == <<proc, twin, display>>

(***************************************************************************)
(* Bounds of the model.                                                    *)
(***************************************************************************)
\* The window system places and sizes windows on a grid of MaxGrid + 1 steps.
MaxGrid == 2
\* How often show is applied to one window in SpecShow.
MaxShowCalls == 2

Coords == {k * 100 : k \in 0..MaxGrid}
Widths == {k * 200 : k \in 1..(MaxGrid + 1)}
Heights == {k * 200 : k \in 1..MaxGrid}

\* sys.argv values a run is started with; argv[1] is the script name.
ArgvSet ==
    { <<"main.py">>,
      <<"main.py", "shot.png">>,
      <<"main.py", "-platform", "offscreen">>,
      <<"main.py", "-platform", "bogus">> }

\* Codes with which the event loop can be told to stop (QCoreApplication.exit).
ExitCodes == {-1, 0, 1, 2, 255, 256, 257}

\* Exit statuses of a run that dies during startup: 1 for an exception that
\* leaves main(), 134 for an abort() of the runtime (SIGABRT seen by a shell).
FailureStatuses == {1, 134}

(***************************************************************************)
(* Events the window system delivers while the event loop runs.            *)
(***************************************************************************)
Ev(kind, a, b) == [kind |-> kind, a |-> a, b |-> b]

Events ==
    {Ev("key", 0, 0), Ev("paint", 0, 0), Ev("close", 0, 0)}
    \cup {Ev("move", x, y) : x \in Coords, y \in Coords}
    \cup {Ev("resize", w, h) : w \in Widths, h \in Heights}
    \cup {Ev("quit", c, 0) : c \in ExitCodes}

\* Events caused by the user acting on the window.
UserKinds == {"key", "move", "resize", "close"}

(***************************************************************************)
(* MainWindow                                                              *)
(***************************************************************************)
\* Variant of MainWindow.__init__ that sets no title.
MainWindow_init_untitled ==
    [title |-> "",
     x |-> 100, y |-> 100, width |-> 600, height |-> 400,
     visible |-> FALSE]

\* Variant of MainWindow.__init__ with width and height swapped in setGeometry.
MainWindow_init_swapped ==
    [title |-> "OpenShot X - Screen Capture Tool",
     x |-> 100, y |-> 100, width |-> 400, height |-> 600,
     visible |-> FALSE]

\* MainWindow.__init__: super().__init__(), setWindowTitle, setGeometry.
\* A widget is hidden until show is called.
MainWindow_init ==
    [title |-> "OpenShot X - Screen Capture Tool",
     x |-> 100, y |-> 100, width |-> 600, height |-> 400,
     visible |-> FALSE]

\* Variant of show that flips the visibility.
QWidget_show_toggle(w) == [w EXCEPT !.visible = ~@]

\* window.show(): QWidget.show is setVisible(True).
QWidget_show(w) == [w EXCEPT !.visible = TRUE]

\* MainWindow overrides no event handler, so every event gets QMainWindow's
\* default handling: a move or resize updates the geometry, a close is
\* accepted and hides the window, everything else leaves the window alone.
MainWindow_event(w, ev) ==
    CASE ev.kind = "move" -> [w EXCEPT !.x = ev.a, !.y = ev.b]
      [] ev.kind = "resize" -> [w EXCEPT !.width = ev.a, !.height = ev.b]
      [] ev.kind = "close" -> [w EXCEPT !.visible = FALSE]
      [] OTHER -> w

(***************************************************************************)
(* QApplication                                                            *)
(***************************************************************************)
\* QApplication(sys.argv) takes the Qt options out of argv; -platform names
\* the platform plugin, the default one talks to the display session.
QtPlatform(argv) ==
    LET opts == {i \in 2..(Len(argv) - 1) : argv[i] = "-platform"}
    IN  IF opts = {} THEN "xcb"
        ELSE argv[(CHOOSE i \in opts : \A j \in opts : i <= j) + 1]

\* TRUE iff QApplication(argv) comes up on the given display session.
QApplication_init(argv, d) ==
    LET p == QtPlatform(argv)
    IN  (p = "xcb" /\ d) \/ p = "offscreen"

\* The quit conditions of app.exec_(): an explicit quit request, or the last
\* visible window closing (quitOnLastWindowClosed is left at its default).
QuitCondition(ws, ev) ==
    \/ ev.kind = "quit"
    \/ /\ ev.kind = "close"
       /\ \A i \in 1..Len(ws) : ~MainWindow_event(ws[i], ev).visible

\* The value app.exec_() returns for the quit condition ev.
QuitCode(ev) == IF ev.kind = "quit" THEN ev.a ELSE 0

\* sys.exit(code) ends the process; the exit status a parent process sees
\* is the low 8 bits of the code.
sys_exit(code) == code % 256

(***************************************************************************)
(* One process run                                                         *)
(***************************************************************************)
Start(argv) ==
    [pc |-> "init", argv |-> argv, app |-> FALSE, windows |-> <<>>,
     initCalls |-> 0, showCalls |-> 0,
     quit |-> FALSE, quitBy |-> "none", ret |-> 0, returned |-> FALSE,
     error |-> "none", status |-> 0, interacted |-> FALSE]

\* An exception that nothing catches: the run ends with a failure status.
Die(s, err, st) == [s EXCEPT !.pc = "done", !.error = err, !.status = st]

\* Variant of the first statement that swallows the failure and goes on.
Main_init_swallow(s, d, st) ==
    [s EXCEPT !.pc = "construct", !.app = QApplication_init(s.argv, d),
              !.initCalls = @ + 1,
              !.error = IF QApplication_init(s.argv, d) THEN @ ELSE "RuntimeUnavailable"]

\* app = QApplication(sys.argv)
Main_init(s, d, st) ==
    IF QApplication_init(s.argv, d)
    THEN [s EXCEPT !.pc = "construct", !.app = TRUE, !.initCalls = @ + 1]
    ELSE Die([s EXCEPT !.initCalls = @ + 1], "RuntimeUnavailable", st)

\* Variant of the second statement that takes the window title from argv.
Main_construct_argtitle(s, allocOk) ==
    IF allocOk
    THEN [s EXCEPT !.pc = "show",
                   !.windows = Append(@, [MainWindow_init EXCEPT
                        !.title = IF Len(s.argv) >= 2 THEN s.argv[2] ELSE @])]
    ELSE Die(s, "ResourceExhaustion", 1)

\* Variant of the second statement that ends the run quietly on a failure.
Main_construct_quiet(s, allocOk) ==
    IF allocOk
    THEN [s EXCEPT !.pc = "show", !.windows = Append(@, MainWindow_init)]
    ELSE Die(s, "ResourceExhaustion", 0)

\* window = MainWindow()
Main_construct(s, allocOk) ==
    IF allocOk
    THEN [s EXCEPT !.pc = "show", !.windows = Append(@, MainWindow_init)]
    ELSE Die(s, "ResourceExhaustion", 1)

\* Variant of main() that enters the event loop where it should show the window.
Main_show_late(s) == [s EXCEPT !.pc = "loop"]

\* window.show()
Main_show(s) ==
    [s EXCEPT !.pc = "exec",
              !.windows[Len(s.windows)] = QWidget_show(@),
              !.showCalls = @ + 1]

\* app.exec_() is entered
Main_exec(s) == [s EXCEPT !.pc = "loop"]

\* The event loop dispatches one event to the window.
Loop_dispatch(s, ev) ==
    LET q == QuitCondition(s.windows, ev)
    IN  [s EXCEPT
           !.windows = [i \in 1..Len(s.windows) |-> MainWindow_event(s.windows[i], ev)],
           !.interacted = @ \/ ev.kind \in UserKinds,
           !.quit = q,
           !.quitBy = IF q THEN ev.kind ELSE @,
           !.ret = IF q THEN QuitCode(ev) ELSE @]

\* app.exec_() returns once a quit condition has occurred.
Loop_return(s) == [s EXCEPT !.pc = "exit", !.returned = TRUE]

\* Variant of the last statement: app.exec_(); sys.exit(0)
Main_exit_zero(s) == [s EXCEPT !.pc = "done", !.status = sys_exit(0)]

\* Variant of the last statement: app.exec_(); sys.exit(1)
Main_exit_one(s) == [s EXCEPT !.pc = "done", !.status = sys_exit(1)]

\* sys.exit(<the value app.exec_() returned>)
Main_exit(s) == [s EXCEPT !.pc = "done", !.status = sys_exit(s.ret)]

\* Variant of the loop that polls once and returns (processEvents for exec_).
CanReturn_poll(s) == s.pc = "loop"

CanDispatch(s) == s.pc = "loop" /\ ~s.quit
CanReturn(s) == s.pc = "loop" /\ s.quit

(***************************************************************************)
(* Spec: one run of main()                                                 *)
(***************************************************************************)
NoTwin == [pc |-> "none"]

Init ==
    /\ display \in BOOLEAN
    /\ \E argv \in ArgvSet : proc = Start(argv)
    /\ twin = NoTwin

Initialize ==
    /\ proc.pc = "init"
    /\ \E st \in FailureStatuses : proc' = Main_init(proc, display, st)
    /\ UNCHANGED <<twin, display>>

CreateMainWindow ==
    /\ proc.pc = "construct"
    /\ \E allocOk \in BOOLEAN : proc' = Main_construct(proc, allocOk)
    /\ UNCHANGED <<twin, display>>

Show ==
    /\ proc.pc = "show"
    /\ proc' = Main_show(proc)
    /\ UNCHANGED <<twin, display>>

RunEventLoop ==
    /\ proc.pc = "exec"
    /\ proc' = Main_exec(proc)
    /\ UNCHANGED <<twin, display>>

Dispatch ==
    /\ CanDispatch(proc)
    /\ \E ev \in Events : proc' = Loop_dispatch(proc, ev)
    /\ UNCHANGED <<twin, display>>

LoopReturn ==
    /\ CanReturn(proc)
    /\ proc' = Loop_return(proc)
    /\ UNCHANGED <<twin, display>>

Terminate ==
    /\ proc.pc = "exit"
    /\ proc' = Main_exit(proc)
    /\ UNCHANGED <<twin, display>>

\* The steps main() takes by itself; Dispatch needs the window system to act.
ProgramStep ==
    \/ Initialize
    \/ CreateMainWindow
    \/ Show
    \/ RunEventLoop
    \/ LoopReturn
    \/ Terminate

Next == ProgramStep \/ Dispatch

Spec == Init /\ [][Next]_vars

\* The interpreter keeps running main()'s single thread until it ends.
FairSpec == Spec /\ WF_vars(ProgramStep)


(***************************************************************************)
(* The lifecycle of the shell                                              *)
(***************************************************************************)
Lifecycle(s) ==
    CASE s.pc = "init" -> "Uninitialized"
      [] s.pc \in {"construct", "show"} -> "RuntimeReady"
      [] s.pc = "exec" -> "WindowVisible"
      [] s.pc \in {"loop", "exit"} -> "EventLoopRunning"
      [] s.pc = "done" -> "Terminated"

Rank(s) ==
    CASE Lifecycle(s) = "Uninitialized" -> 0
      [] Lifecycle(s) = "RuntimeReady" -> 1
      [] Lifecycle(s) = "WindowVisible" -> 2
      [] Lifecycle(s) = "EventLoopRunning" -> 3
      [] Lifecycle(s) = "Terminated" -> 4

AnyVisible(s) == \E i \in 1..Len(s.windows) : s.windows[i].visible

\* C1: every step of a run keeps the lifecycle state or moves it forward
\* along Uninitialized -> RuntimeReady -> WindowVisible -> EventLoopRunning ->
\* Terminated (so no state is entered twice and none is returned to); a run
\* without a startup failure moves one state at a time; a window is only
\* constructed once the runtime is initialized; and the event loop is only
\* entered with the window shown.
C1_LifecycleForward ==
    [][ /\ Rank(proc') >= Rank(proc)
        /\ (proc'.error = "none" => Rank(proc') <= Rank(proc) + 1)
        /\ (Len(proc'.windows) > Len(proc.windows) => proc.app)
        /\ (proc.pc # "loop" /\ proc'.pc = "loop"
              => proc.showCalls = 1 /\ AnyVisible(proc)) ]_vars

C1_Witness ==
    /\ proc.pc = "done"
    /\ proc.error = "none"
    /\ proc.returned
    /\ proc.showCalls = 1

C3_FatalInit ==
    proc.error = "RuntimeUnavailable" =>
        /\ proc.pc = "done"
        /\ proc.status # 0
        /\ proc.windows = <<>>
        /\ proc.showCalls = 0
        /\ ~proc.returned /\ ~proc.quit
        /\ proc.initCalls = 1

C3_Witness ==
    /\ proc.error = "RuntimeUnavailable"
    /\ proc.pc = "done"
    /\ ~display

\* C4: once startup is complete (window shown, event loop running or
\* returned) there is exactly one MainWindow and its title is
\* "OpenShot X - Screen Capture Tool"; there is never a second window.
C4_SingleTitledWindow ==
    /\ Len(proc.windows) <= 1
    /\ proc.pc \in {"exec", "loop", "exit"} =>
          /\ Len(proc.windows) = 1
          /\ proc.windows[1].title = "OpenShot X - Screen Capture Tool"

C4_Witness ==
    /\ proc.pc = "loop"
    /\ proc.interacted
    /\ Len(proc.windows) = 1
    /\ proc.windows[1].visible

C7_LoopEndsOnQuitOnly ==
    /\ [][ /\ (proc.pc = "loop" /\ proc'.pc # "loop") => proc.quit
           /\ (~proc.quit /\ proc'.quit) => proc'.quitBy \in {"close", "quit"}
           /\ (proc.pc = "loop" /\ proc.quit) => proc'.pc \in {"loop", "exit"} ]_vars
    /\ ((proc.pc = "loop" /\ proc.quit) ~> (proc.pc = "done" /\ proc.returned))

C7_Witness ==
    /\ proc.pc = "done"
    /\ proc.returned
    /\ proc.quitBy = "close"

\* C8: a run started with no arguments on a valid display session, whose
\* event loop ended because the user closed the window, exits with status 0.
C8_NormalCloseExitsZero ==
    (proc.pc = "done" /\ Len(proc.argv) = 1 /\ display /\ proc.quitBy = "close")
        => proc.status = 0

C8_Witness ==
    /\ proc.pc = "done"
    /\ Len(proc.argv) = 1
    /\ display
    /\ proc.quitBy = "close"
    /\ proc.interacted

\* C10: a run in which window construction failed has ended with a nonzero
\* exit status with no window, no show and no event loop; and any run with
\* a startup failure has ended at once, with a nonzero status and with
\* initialization attempted once.
C10_FatalConstruct ==
    /\ proc.error = "ResourceExhaustion" =>
          /\ proc.pc = "done"
          /\ proc.status # 0
          /\ proc.app
          /\ proc.windows = <<>>
          /\ proc.showCalls = 0
          /\ ~proc.returned /\ ~proc.quit
    /\ proc.error # "none" =>
          /\ proc.pc = "done"
          /\ proc.status # 0
          /\ proc.initCalls = 1

C10_Witness ==
    /\ proc.error = "ResourceExhaustion"
    /\ proc.pc = "done"
    /\ proc.app


(***************************************************************************)
(* SpecPair: two runs of main() side by side on the same display, started  *)
(* with any two argv values and given the same outcomes by the environment *)
(* (the same allocation results, the same events in the same order).  A    *)
(* run that has ended stays as it is while the other goes on.              *)
(***************************************************************************)
InitPair ==
    /\ display \in BOOLEAN
    /\ \E a \in ArgvSet : proc = Start(a)
    /\ \E b \in ArgvSet : twin = Start(b)

PairInitialize ==
    /\ proc.pc = "init" \/ twin.pc = "init"
    /\ \E st \in FailureStatuses :
          /\ proc' = IF proc.pc = "init" THEN Main_init(proc, display, st) ELSE proc
          /\ twin' = IF twin.pc = "init" THEN Main_init(twin, display, st) ELSE twin
    /\ UNCHANGED display

PairCreateMainWindow ==
    /\ proc.pc = "construct" \/ twin.pc = "construct"
    /\ \E allocOk \in BOOLEAN :
          /\ proc' = IF proc.pc = "construct" THEN Main_construct(proc, allocOk) ELSE proc
          /\ twin' = IF twin.pc = "construct" THEN Main_construct(twin, allocOk) ELSE twin
    /\ UNCHANGED display

PairShow ==
    /\ proc.pc = "show" \/ twin.pc = "show"
    /\ proc' = IF proc.pc = "show" THEN Main_show(proc) ELSE proc
    /\ twin' = IF twin.pc = "show" THEN Main_show(twin) ELSE twin
    /\ UNCHANGED display

PairRunEventLoop ==
    /\ proc.pc = "exec" \/ twin.pc = "exec"
    /\ proc' = IF proc.pc = "exec" THEN Main_exec(proc) ELSE proc
    /\ twin' = IF twin.pc = "exec" THEN Main_exec(twin) ELSE twin
    /\ UNCHANGED display

PairDispatch ==
    /\ CanDispatch(proc) \/ CanDispatch(twin)
    /\ \E ev \in Events :
          /\ proc' = IF CanDispatch(proc) THEN Loop_dispatch(proc, ev) ELSE proc
          /\ twin' = IF CanDispatch(twin) THEN Loop_dispatch(twin, ev) ELSE twin
    /\ UNCHANGED display

PairLoopReturn ==
    /\ CanReturn(proc) \/ CanReturn(twin)
    /\ proc' = IF CanReturn(proc) THEN Loop_return(proc) ELSE proc
    /\ twin' = IF CanReturn(twin) THEN Loop_return(twin) ELSE twin
    /\ UNCHANGED display

PairTerminate ==
    /\ proc.pc = "exit" \/ twin.pc = "exit"
    /\ proc' = IF proc.pc = "exit" THEN Main_exit(proc) ELSE proc
    /\ twin' = IF twin.pc = "exit" THEN Main_exit(twin) ELSE twin
    /\ UNCHANGED display

NextPair ==
    \/ PairInitialize
    \/ PairCreateMainWindow
    \/ PairShow
    \/ PairRunEventLoop
    \/ PairDispatch
    \/ PairLoopReturn
    \/ PairTerminate

SpecPair == InitPair /\ [][NextPair]_vars

WindowStates ==
    [title : {MainWindow_init.title},
     x : Coords, y : Coords, width : Widths, height : Heights,
     visible : BOOLEAN]

InitShow ==
    /\ display = TRUE
    /\ twin = NoTwin
    /\ \E w \in WindowStates :
          proc = [Start(<<"main.py">>) EXCEPT
                     !.pc = "show", !.app = TRUE, !.initCalls = 1,
                     !.windows = <<w>>]

ShowAgain ==
    /\ proc.pc = "show"
    /\ proc.showCalls < MaxShowCalls
    /\ proc' = [Main_show(proc) EXCEPT !.pc = "show"]
    /\ UNCHANGED <<twin, display>>

NextShow == ShowAgain

SpecShow == InitShow /\ [][NextShow]_vars

====
